---------------------------- MODULE Spec2Model ----------------------------
(***************************************************************************)
(* State-machine model of src/src/abstract_map/spatial_layout.py: the      *)
(* SpatialLayout container, its RungeKutta45 integrator, the safe state    *)
(* applier (_pushStateSafely / _stepSafely), initialiseState and the       *)
(* energy log.                                                             *)
(*                                                                         *)
(* Numbers.  The program computes in IEEE doubles on the plane.  The model *)
(* keeps every mass on the x axis (all y components are 0, which the       *)
(* distance springs and the reflection code preserve) and carries lengths, *)
(* velocities and accelerations in fixed point, DIST_UNIT grid units to    *)
(* 1.0, and angles in thousandths of a radian.  A number is the 1-tuple    *)
(* <<n>>; the 0-tuple stands for the float NaN, which the program produces *)
(* by 0/0 and which propagates through arithmetic and fails every          *)
(* comparison.                                                             *)
(***************************************************************************)
EXTENDS Integers, Sequences, FiniteSets, TLC

(***************************************************************************)
(* Program constants (spatial_layout.py lines 18-28), in model units.      *)
(***************************************************************************)
DIST_UNIT == 1000
\* SAFE_DISTANCE = 0.2
SAFE_DISTANCE == 200
\* INTEGRATION_DT = 0.1, kept as its reciprocal
DT_INV == 10
FRICTION_COEFFICIENT == 1
STIFF_L == 1
DIR_ZERO == 0
\* np.pi in thousandths of a radian
PI == 3142
\* SEARCH_DEPTH of ConstraintAngleLocal.placementSuggestion
SEARCH_DEPTH == 20

(***************************************************************************)
(* Bounds of the exploration.                                              *)
(***************************************************************************)
\* number of API calls made on the layout in one run
MaxOps == 4
\* number of constraints the layout may hold
MaxConstraints == 2

(***************************************************************************)
(* Float arithmetic with NaN.                                              *)
(***************************************************************************)
NaN == <<>>
Fin(n) == <<n>>
IsNaN(x) == x = NaN
Val(x) == x[1]
ZERO == Fin(0)

Abs(n) == IF n < 0 THEN -n ELSE n
Sign(n) == IF n > 0 THEN 1 ELSE IF n < 0 THEN -1 ELSE 0
\* division truncating toward zero (d > 0)
Quot(n, d) == IF n >= 0 THEN n \div d ELSE -((-n) \div d)

Add(x, y) == IF IsNaN(x) \/ IsNaN(y) THEN NaN ELSE Fin(Val(x) + Val(y))
Sub(x, y) == IF IsNaN(x) \/ IsNaN(y) THEN NaN ELSE Fin(Val(x) - Val(y))
Mul(x, y) == IF IsNaN(x) \/ IsNaN(y) THEN NaN ELSE Fin(Val(x) * Val(y))
Neg(x) == IF IsNaN(x) THEN NaN ELSE Fin(-Val(x))
\* x / d for an integer d > 0
DivInt(x, d) == IF IsNaN(x) THEN NaN ELSE Fin(Quot(Val(x), d))
\* numpy float division x / y: 0/0 is NaN (a RuntimeWarning, no exception)
Div(x, y) ==
  IF IsNaN(x) \/ IsNaN(y) THEN NaN
  ELSE IF Val(y) = 0 THEN NaN
  ELSE Fin(Quot(Val(x) * Sign(Val(y)), Abs(Val(y))))
\* comparisons: false as soon as one side is NaN
Lt(x, y) == ~IsNaN(x) /\ ~IsNaN(y) /\ Val(x) < Val(y)
AbsN(x) == IF IsNaN(x) THEN NaN ELSE Fin(Abs(Val(x)))

\* the digit d of the integer square root of n at place value unit, above
\* the digits already found (base)
IsqrtDigit(n, base, unit) ==
  CHOOSE d \in 0..35 :
    /\ (base + d * unit) * (base + d * unit) <= n
    /\ d = 35 \/ n < (base + (d + 1) * unit) * (base + (d + 1) * unit)
IsqrtLow(n, base) == base + IsqrtDigit(n, base, 1)
IsqrtMid(n, base) == IsqrtLow(n, base + 36 * IsqrtDigit(n, base, 36))
Isqrt(n) == IsqrtMid(n, 1296 * IsqrtDigit(n, 0, 1296))
\* x ** 0.5 (x >= 0)
Sqrt(x) == IF IsNaN(x) THEN NaN ELSE Fin(Isqrt(Val(x)))
\* (v[0]**2 + v[1]**2)**0.5 of a vector on the x axis
Norm(x) == Sqrt(Add(Mul(x, x), Mul(ZERO, ZERO)))

\* np.arctan2(0, x) for a vector on the x axis: 0 to the right (and for the
\* zero vector), pi to the left
Arctan2(x) == IF IsNaN(x) THEN NaN ELSE IF Val(x) < 0 THEN Fin(PI) ELSE ZERO
\* cos and sin of a direction along the axis (0 or +-pi)
Cos(th) ==
  IF IsNaN(th) THEN NaN ELSE IF 2 * Abs(Val(th)) < PI THEN Fin(1) ELSE Fin(-1)
Sin(th) == IF IsNaN(th) THEN NaN ELSE ZERO

\* _angleWrap: (angle + pi) % (2 pi) - pi, in [-pi, pi)
angleWrap(angle) ==
  IF IsNaN(angle) THEN NaN
  ELSE LET ret == (Val(angle) + PI) % (2 * PI)
       IN  Fin((IF ret < 0 THEN ret + 2 * PI ELSE ret) - PI)


(***************************************************************************)
(* Objects handed to the layout.  A mass object is identified by its index *)
(* (Python object identity: the classes define no __eq__); objects 1 and 2 *)
(* are distinct objects that share the name "a"; object 3 is a MassFixed.  *)
(* Objects 1 and 2 are built with the defaults (at the origin), 3 and 4    *)
(* with a position; every velocity and acceleration starts at zero         *)
(* (lines 415-424, 438-444).                                               *)
(***************************************************************************)
ObjName == <<"a", "a", "b", "c">>
ObjFixed == <<FALSE, FALSE, TRUE, FALSE>>
ObjPos == <<0, 0, 100, 1500>>
Objs == DOMAIN ObjName
NoObj == 0

\* Constraint objects: kind, participants (_mass_a, _mass_b, _mass_c),
\* _natural_length, _stiffness, _tag_id
ConstraintDistance(mass_a, mass_b, natural_length, stiffness, tag_id) ==
  [kind |-> "distance", a |-> mass_a, b |-> mass_b, c |-> NoObj,
   len |-> natural_length, k |-> stiffness, tag |-> tag_id]
ConstraintAngleGlobal(mass_a, mass_b, natural_length, stiffness, tag_id) ==
  [kind |-> "angle_global", a |-> mass_a, b |-> mass_b, c |-> NoObj,
   len |-> natural_length, k |-> stiffness, tag |-> tag_id]
ConstraintAngleLocal(mass_a, mass_b, mass_c, natural_length, stiffness, tag_id) ==
  [kind |-> "angle_local", a |-> mass_a, b |-> mass_b, c |-> mass_c,
   len |-> natural_length, k |-> stiffness, tag |-> tag_id]

\* Constraint.masses()
cMasses(c) ==
  IF c.kind = "angle_local" THEN <<c.a, c.b, c.c>> ELSE <<c.a, c.b>>

\* The constraints a caller constructs (each call constructs a new object)
ConstraintPool ==
  << ConstraintDistance(1, 3, DIST_UNIT, STIFF_L, -1),
     ConstraintDistance(2, 4, DIST_UNIT, STIFF_L, 3),
     ConstraintAngleGlobal(1, 4, DIR_ZERO, STIFF_L, 7),
     ConstraintAngleLocal(1, 3, 4, DIR_ZERO, STIFF_L, 7),
     ConstraintDistance(3, 4, DIST_UNIT, STIFF_L, 3) >>
\* Arguments of addConstraints
BatchPool ==
  << <<ConstraintPool[1], ConstraintPool[2]>> >>
\* Arguments of updateConstraints: one tag-7 constraint, two tag-3
\* constraints, an untagged one, mixed tags (7,3)
UpdatePool ==
  << <<ConstraintPool[3]>>,
     <<ConstraintPool[2], ConstraintPool[5]>>,
     <<ConstraintPool[1]>>,
     <<ConstraintPool[3], ConstraintPool[5]>> >>
\* Outcomes of the random draws of randomiseState (window_size = 5), one
\* position per object
RandomDraws ==
  << <<0, 100, -150, 150>>,
     <<-500, 600, 0, 500>> >>

Range(s) == {s[i] : i \in DOMAIN s}

VARIABLES
  masses,              \* self._masses: sequence of mass objects
  constraints,         \* self._constraints: sequence of constraint objects
  system_changed,      \* self._system_changed
  bounced_last_step,   \* self._bounced_last_step
  log_energy,          \* constructor argument: is there an EnergyLog
  energy_log,          \* self._energy_log: the series t, kinetic, potential
  hook_set,            \* self._post_state_change_fcn is not None
  hook_calls,          \* number of invocations of the hook
  hook_seen,           \* what the hook saw on its last invocation
  pos, vel, acc,       \* m.pos, m.vel, m.acc of every mass object (x axis)
  ode_y, ode_t,        \* self._ode.y (one block per mass), self._ode.t (ticks)
  pc,                  \* position inside step(): "idle", "safely", "mark"
  state,               \* step(): the local copy of _ode.y taken before integrating
  idx,                 \* _pushStateSafely: index of the mass being stepped
  stp,                 \* _stepSafely: the remaining step of that mass
  call,                \* the API call made last
  err,                 \* the exception the last API call raised, or "none"
  ms_order,            \* initialiseState: the order ms in which masses were placed
  fold_order,          \* initialiseState: per placed mass, the kinds of merged
                       \* suggestion in the order they were folded into placement
  nops,                \* API calls made so far that took effect
  plane,               \* one call of _stepSafely on the plane: the position of
                       \* the mass, its step, the position of another mass of
                       \* the layout, and how the pass through the loop ended
  ode_owner,           \* the masses, in order, whose states were concatenated
                       \* into the vector self._ode was last seeded with
  passes               \* _stepSafely: the configurations (positions,
                       \* velocities, remaining step) in which the current
                       \* call has been at the head of its while loop

vars == <<masses, constraints, system_changed, bounced_last_step, log_energy,
          energy_log, hook_set, hook_calls, hook_seen, pos, vel, acc, ode_y,
          ode_t, pc, state, idx, stp, call, err, ms_order, fold_order, nops,
          ode_owner, passes, plane>>

(***************************************************************************)
(* The layout object as a record, so that a handler that calls other       *)
(* methods is the composition of their effects.                            *)
(***************************************************************************)
Self ==
  [masses |-> masses, constraints |-> constraints,
   system_changed |-> system_changed, bounced_last_step |-> bounced_last_step,
   log_energy |-> log_energy, energy_log |-> energy_log,
   hook_calls |-> hook_calls, hook_seen |-> hook_seen,
   pos |-> pos, vel |-> vel, acc |-> acc, ode_y |-> ode_y, ode_t |-> ode_t]

Store(L) ==
  /\ masses' = L.masses
  /\ constraints' = L.constraints
  /\ system_changed' = L.system_changed
  /\ bounced_last_step' = L.bounced_last_step
  /\ energy_log' = L.energy_log
  /\ hook_calls' = L.hook_calls
  /\ hook_seen' = L.hook_seen
  /\ pos' = L.pos
  /\ vel' = L.vel
  /\ acc' = L.acc
  /\ ode_y' = L.ode_y
  /\ ode_t' = L.ode_t

(***************************************************************************)
(* Geometry helpers (lines 715-738, 802-806) on x coordinates.             *)
(***************************************************************************)
\* _distance
distance(pa, pb) == Norm(Sub(pa, pb))

\* _angle(mass_a, mass_b)
angle2(pa, pb) == angleWrap(Arctan2(Sub(pa, pb)))
\* _angle(mass_a, mass_b, mass_c)
angle3(pa, pb, pc3) ==
  angleWrap(Sub(Arctan2(Sub(pa, pb)), Arctan2(Sub(pc3, pb))))

\* _uv: x component of the unit vector pointing to a from b; (1, 0) when the
\* positions are equal (np.array_equal is false on NaN)
uv(pa, pb) ==
  IF ~IsNaN(pa) /\ ~IsNaN(pb) /\ pa = pb THEN Fin(1)
  ELSE Div(Sub(pa, pb), Norm(Sub(pa, pb)))

(***************************************************************************)
(* Constraint.length / displacement / totalEnergy, Mass.totalEnergy.       *)
(***************************************************************************)
cLength(L, c) ==
  CASE c.kind = "distance" -> distance(L.pos[c.a], L.pos[c.b])
    [] c.kind = "angle_global" -> angle2(L.pos[c.a], L.pos[c.b])
    [] c.kind = "angle_local" -> angle3(L.pos[c.a], L.pos[c.b], L.pos[c.c])

wrapIf(angular, x) == IF angular THEN angleWrap(x) ELSE x
displacement(L, c) ==
  wrapIf(c.kind # "distance", Sub(cLength(L, c), Fin(c.len)))

\* Constraint.totalEnergy: 0.5 * stiffness * displacement ** 2
Square(x) == Mul(x, x)
cTotalEnergy(L, c) == DivInt(Mul(Fin(c.k), Square(displacement(L, c))), 2)

\* MassFixed.totalEnergy / Mass.totalEnergy: 0.5 * _mass * sum(vel ** 2)
mTotalEnergy(L, m) ==
  IF ObjFixed[m] THEN ZERO ELSE DivInt(Square(L.vel[m]), 2)

RECURSIVE SumSeq(_)
SumSeq(s) == IF s = <<>> THEN ZERO ELSE Add(Head(s), SumSeq(Tail(s)))

(***************************************************************************)
(* EnergyLog (lines 383-401) and the layout's logging methods.             *)
(***************************************************************************)
EmptyLog == [t |-> <<>>, kinetic |-> <<>>, potential |-> <<>>]

\* EnergyLog.logEnergy
EnergyLog_logEnergy(L) ==
  [L EXCEPT !.energy_log =
     [t |-> Append(@.t, L.ode_t),
      kinetic |->
        Append(@.kinetic,
               SumSeq([i \in DOMAIN L.masses |-> mTotalEnergy(L, L.masses[i])])),
      potential |->
        Append(@.potential,
               SumSeq([i \in DOMAIN L.constraints |->
                         cTotalEnergy(L, L.constraints[i])]))]]

\* SpatialLayout.logEnergy
\* SpatialLayout.logEnergy with the test of self._energy_log the wrong way round
logEnergyWhenDisabled(L) == IF L.log_energy THEN L ELSE EnergyLog_logEnergy(L)

\* SpatialLayout.logEnergy
logEnergy(L) == IF L.log_energy THEN EnergyLog_logEnergy(L) ELSE L

\* SpatialLayout.resetEnergyLog / EnergyLog.reset
resetEnergyLog(L) ==
  IF L.log_energy THEN [L EXCEPT !.energy_log = EmptyLog] ELSE L

\* the registered hook: an observer, which notes what it sees of the layout
postStateChange(L) ==
  [L EXCEPT !.hook_calls = @ + 1,
            !.hook_seen = [system_changed |-> L.system_changed,
                           samples |-> Len(L.energy_log.t),
                           pc |-> pc]]

\* markStateChanged with the hook invoked before the energy is logged
markStateChangedHookFirst(L, sc, reset) ==
  IF hook_set
  THEN logEnergy(postStateChange(
         IF reset THEN resetEnergyLog([L EXCEPT !.system_changed = sc])
         ELSE [L EXCEPT !.system_changed = sc]))
  ELSE logEnergy(IF reset THEN resetEnergyLog([L EXCEPT !.system_changed = sc])
                 ELSE [L EXCEPT !.system_changed = sc])

\* SpatialLayout.markStateChanged(system_changed, reset)
resetIf(L, reset) == IF reset THEN resetEnergyLog(L) ELSE L
hookIf(L) == IF hook_set THEN postStateChange(L) ELSE L
markStateChanged(L, sc, reset) ==
  hookIf(logEnergy(resetIf([L EXCEPT !.system_changed = sc], reset)))

(***************************************************************************)
(* Container operations (lines 149-185, 367-380).                          *)
(***************************************************************************)
\* getMass: the first mass with the name, or None
getMass(L, name) ==
  IF \E i \in DOMAIN L.masses : ObjName[L.masses[i]] = name
  THEN L.masses[CHOOSE i \in DOMAIN L.masses :
                  /\ ObjName[L.masses[i]] = name
                  /\ \A j \in 1..(i - 1) : ObjName[L.masses[j]] # name]
  ELSE NoObj
\* "m_found if m_found is not None", else the object itself
orElse(m_found, m) == IF m_found # NoObj THEN m_found ELSE m

\* addMass: append when the object is not in the list ("in" compares objects)
addMass(L, m) ==
  IF m \notin Range(L.masses)
  THEN markStateChanged([L EXCEPT !.masses = Append(@, m)], TRUE, FALSE)
  ELSE L

\* the first loop of addConstraint: slot i is rebound to the owned mass of
\* the same name, when there is one
rebind(L, c) ==
  [c EXCEPT !.a = orElse(getMass(L, ObjName[c.a]), c.a),
            !.b = orElse(getMass(L, ObjName[c.b]), c.b),
            !.c = IF c.kind = "angle_local"
                  THEN orElse(getMass(L, ObjName[c.c]), c.c) ELSE NoObj]

RECURSIVE addMasses(_, _)
addMasses(L, ms) ==
  IF ms = <<>> THEN L ELSE addMasses(addMass(L, Head(ms)), Tail(ms))

\* addConstraint
appendConstraint(L, c) ==
  markStateChanged([addMasses(L, cMasses(c)) EXCEPT !.constraints = Append(@, c)],
                   TRUE, FALSE)
addConstraint(L, c) == appendConstraint(L, rebind(L, c))

\* addConstraints
RECURSIVE addConstraints(_, _)
addConstraints(L, cs) ==
  IF cs = <<>> THEN L ELSE addConstraints(addConstraint(L, Head(cs)), Tail(cs))

SelectSeqTag(cs, tag_id) == SelectSeq(cs, LAMBDA c : c.tag # tag_id)

\* updateConstraints without its second assertion
updateConstraintsErrorFirstOnly(cs) ==
  IF cs = <<>> THEN "IndexError"
  ELSE IF ~(cs[1].tag >= 0) THEN "AssertionError"
  ELSE "none"

\* updateConstraints: the exception raised, or "none"
updateConstraintsError(cs) ==
  IF cs = <<>> THEN "IndexError"
  ELSE IF ~(cs[1].tag >= 0) THEN "AssertionError"
  ELSE IF ~(\A i \in DOMAIN cs : cs[i].tag = cs[1].tag) THEN "AssertionError"
  ELSE "none"

\* updateConstraints without the filter on the tag id: cs is only appended
updateConstraintsAppendOnly(L, cs) ==
  [L EXCEPT !.constraints = @ \o cs, !.system_changed = TRUE]

\* updateConstraints, past its assertions
updateConstraints(L, cs) ==
  markStateChanged([L EXCEPT !.constraints = SelectSeqTag(@, cs[1].tag) \o cs],
                   TRUE, FALSE)

(***************************************************************************)
(* Phase vector, forces and the integrator (lines 31-49, 73-110).  A phase *)
(* vector is a sequence with one block [pos, vel] per mass.                *)
(***************************************************************************)
IndexOf(ms, m) == CHOOSE i \in DOMAIN ms : ms[i] = m

\* _pullState
pullState(L) ==
  [i \in DOMAIN L.masses |->
     [pos |-> L.pos[L.masses[i]], vel |-> L.vel[L.masses[i]]]]

\* _pushState
pushState(L, y) ==
  [L EXCEPT
     !.pos = [o \in Objs |-> IF o \in Range(L.masses)
                             THEN y[IndexOf(L.masses, o)].pos ELSE @[o]],
     !.vel = [o \in Objs |-> IF o \in Range(L.masses)
                             THEN y[IndexOf(L.masses, o)].vel ELSE @[o]]]

\* "m.acc[:] = 0; m.applyFriction()" for the masses of the layout
\* (MassFixed.applyFriction does nothing); the acc of any other object is
\* left as it is
applyFriction(L, m) ==
  IF m \notin Range(L.masses) THEN L.acc[m]
  ELSE IF ObjFixed[m] THEN ZERO
  ELSE Add(ZERO, Mul(Fin(-FRICTION_COEFFICIENT), L.vel[m]))

\* ConstraintDistance.applyForce (every _mass is 1): what it adds to the acc
\* of m.  The two angle variants push along the normal of the axis; stepping
\* is explored for layouts whose springs are distance springs (see
\* StepBegin).
forceVector(L, c) ==
  Mul(Mul(Fin(-c.k), displacement(L, c)), uv(L.pos[c.a], L.pos[c.b]))
forceOn(m, c, force_vector) ==
  Add(IF m = c.a /\ ~ObjFixed[m] THEN force_vector ELSE ZERO,
      IF m = c.b /\ ~ObjFixed[m] THEN Neg(force_vector) ELSE ZERO)
applyForce(L, c, m) == forceOn(m, c, forceVector(L, c))

\* _refreshForces: friction, then the force of every constraint in the
\* order of the list (positions and velocities do not change meanwhile)
refreshForces(L) ==
  [L EXCEPT !.acc =
     [m \in Objs |->
        SumSeq(<<applyFriction(L, m)>>
               \o [i \in DOMAIN L.constraints |->
                     applyForce(L, L.constraints[i], m)])]]

\* _stateDerivative: the layout after the call, and the derivative
derivativeOf(L) ==
  [L |-> L,
   dy |-> [i \in DOMAIN L.masses |->
             [pos |-> L.vel[L.masses[i]], vel |-> L.acc[L.masses[i]]]]]
stateDerivative(L, y) == derivativeOf(refreshForces(pushState(L, y)))

\* y + k / den, blockwise
axpy(y, k, den) ==
  [i \in DOMAIN y |-> [pos |-> Add(y[i].pos, DivInt(k[i].pos, den)),
                       vel |-> Add(y[i].vel, DivInt(k[i].vel, den))]]

\* RungeKutta45.integrate
\* k1 + 2 * k2 + 2 * k3 + k4
ksum(k1, k2, k3, k4) == Add(Add(k1, Mul(Fin(2), k2)), Add(Mul(Fin(2), k3), k4))

\* the argument of the i-th call of self.f in RungeKutta45.integrate, given
\* the results ds of the calls before it: y, y + DT * 0.5 * k1,
\* y + DT * 0.5 * k2, y + DT * k3
rkArgument(y, ds) ==
  IF ds = <<>> THEN y
  ELSE axpy(y, ds[Len(ds)].dy, IF Len(ds) = 3 THEN DT_INV ELSE 2 * DT_INV)

\* "self.y += (1. / 6.) * (k1 + 2 * k2 + 2 * k3 + k4) * INTEGRATION_DT;
\* self.t = t_new", on the layout the last call of self.f left
rkEnd(y, ds) ==
  [ds[4].L EXCEPT
     !.ode_y = axpy(y,
                    [i \in DOMAIN y |->
                       [pos |-> ksum(ds[1].dy[i].pos, ds[2].dy[i].pos,
                                     ds[3].dy[i].pos, ds[4].dy[i].pos),
                        vel |-> ksum(ds[1].dy[i].vel, ds[2].dy[i].vel,
                                     ds[3].dy[i].vel, ds[4].dy[i].vel)]],
                    6 * DT_INV),
     !.ode_t = @ + 1]

\* the four calls of self.f, each on the layout the call before it left
RECURSIVE rkStages(_, _, _)
rkStages(L, y, ds) ==
  IF Len(ds) = 4 THEN rkEnd(y, ds)
  ELSE rkStages(L, y,
                Append(ds, stateDerivative(IF ds = <<>> THEN L ELSE ds[Len(ds)].L,
                                           rkArgument(y, ds))))

\* RungeKutta45.integrate
integrate(L) == rkStages(L, L.ode_y, <<>>)

(***************************************************************************)
(* Reflection geometry (lines 741-799) on the x axis.                      *)
(***************************************************************************)
\* _firstCircleIntersect(line_a, line_b, circle_center, circle_r); every y
\* component is 0, so use_vertical (|dx| < |dy|) is false and m = 0 / dx.
\* Returns the intersect, and whether the discriminant was negative
\* (ValueError).
\* the return statement: the root nearer to line_a
fciNearest(line_a, root_1, root_2) ==
  IF Lt(Norm(Sub(root_1, line_a)), Norm(Sub(root_2, line_a)))
  THEN root_1 ELSE root_2
\* the roots of the quadratic, given the square root of its discriminant
fciRoots(line_a, quad_a, quad_b, root) ==
  fciNearest(line_a,
             Div(Add(Neg(quad_b), root), Mul(Fin(2), quad_a)),
             Div(Sub(Neg(quad_b), root), Mul(Fin(2), quad_a)))
fciSolve(line_a, quad_a, quad_b, discriminant) ==
  [raises |-> Lt(discriminant, ZERO),
   intersect |-> IF Lt(discriminant, ZERO) THEN NaN
                 ELSE fciRoots(line_a, quad_a, quad_b, Sqrt(discriminant))]
fciQuadratic(line_a, quad_a, quad_b, quad_c) ==
  fciSolve(line_a, quad_a, quad_b,
           Sub(Square(quad_b), Mul(Mul(Fin(4), quad_a), quad_c)))
\* the line y = m x + c against the circle
fciLine(line_a, circle_center, circle_r, m, c) ==
  fciQuadratic(line_a,
               Sub(Fin(-1), Square(m)),
               Add(Add(Mul(Mul(Fin(-2), m), c), Mul(Mul(Fin(2), m), ZERO)),
                   Mul(Fin(2), circle_center)),
               Add(Sub(Sub(Add(Neg(Square(c)), Square(circle_r)),
                           Square(circle_center)),
                       Square(ZERO)),
                   Mul(Mul(Fin(2), c), ZERO)))
fciSlope(line_a, circle_center, circle_r, m) ==
  fciLine(line_a, circle_center, circle_r, m, Add(Mul(Neg(m), line_a), ZERO))
firstCircleIntersect(line_a, line_b, circle_center, circle_r) ==
  fciSlope(line_a, circle_center, circle_r, Div(ZERO, Sub(line_b, line_a)))

\* _reflectedDirection
\* the angle arithmetic of _reflectedDirection on the two difference vectors
reflectedAngle(ro, sr) ==
  angleWrap(Sub(Arctan2(Neg(ro)), Sub(Arctan2(sr), Arctan2(ro))))
reflectedDirection(start_point, reflect_point, reflect_origin) ==
  reflectedAngle(Sub(reflect_origin, reflect_point),
                 Sub(reflect_point, start_point))

\* _reflectedPosition
reflectedPosition(start_point, step, reflect_point, reflect_direction) ==
  Add(reflect_point,
      Mul(Sub(Norm(step), Norm(Sub(reflect_point, start_point))),
          Cos(reflect_direction)))

\* _rotateVectorTo
rotateVectorTo(vector, angle) == Mul(Norm(vector), Cos(angle))

(***************************************************************************)
(* The safe state applier (lines 85-147).                                  *)
(***************************************************************************)
\* the clash search of _stepSafely: the first mass of the layout, other than
\* mass, closer than SAFE_DISTANCE to the desired position; None if none
clash(L, mass, desired, m) ==
  m # mass /\ Lt(distance(desired, L.pos[m]), Fin(SAFE_DISTANCE))
\* next(iterator, None)
firstOf(ms, found) ==
  IF found = {} THEN NoObj
  ELSE ms[CHOOSE i \in found : \A j \in found : i <= j]
unsafeOf(L, mass, step) ==
  firstOf(L.masses,
          {i \in DOMAIN L.masses :
             clash(L, mass, Add(L.pos[mass], step), L.masses[i])})

\* the body of "if m_unsafe is not None" in _stepSafely: the layout and the
\* remaining step after the collision, and whether _firstCircleIntersect raised
\* "Update states from the collision, and reduce the step" (lines 139-145)
bounceUpdate(L, mass, m_unsafe, intersect, bounce_direction_m, bounce_direction_mu, bounced_position) ==
  [raises |-> FALSE,
   L |-> [[[L EXCEPT !.vel[mass] = rotateVectorTo(@, bounce_direction_m)]
              EXCEPT !.vel[m_unsafe] = rotateVectorTo(@, bounce_direction_mu)]
              EXCEPT !.pos[mass] = intersect, !.bounced_last_step = TRUE],
   step |-> Sub(bounced_position, intersect)]
bounceDirections(L, mass, step, m_unsafe, intersect, bounce_direction_m) ==
  bounceUpdate(L, mass, m_unsafe, intersect, bounce_direction_m,
               reflectedDirection(L.pos[m_unsafe], intersect, L.pos[mass]),
               reflectedPosition(L.pos[mass], step, intersect, bounce_direction_m))
\* "Get some metrics for the collision" (lines 129-137), past the intersect
bounceMetrics(L, mass, step, m_unsafe, fci) ==
  IF fci.raises THEN [raises |-> TRUE, L |-> L, step |-> step]
  ELSE bounceDirections(L, mass, step, m_unsafe, fci.intersect,
         reflectedDirection(L.pos[mass], fci.intersect, L.pos[m_unsafe]))
bounce(L, mass, step, m_unsafe) ==
  bounceMetrics(L, mass, step, m_unsafe,
                firstCircleIntersect(L.pos[mass], Add(L.pos[mass], step),
                                     L.pos[m_unsafe], Fin(SAFE_DISTANCE)))

\* the first lines of _pushStateSafely without "self._bounced_last_step = False"
pushStateSafelyBeginKeepsBounced(L, y_a, y_b) ==
  [pushState(L, y_a) EXCEPT
     !.vel = [o \in Objs |-> IF o \in Range(L.masses)
                             THEN y_b[IndexOf(L.masses, o)].vel ELSE @[o]]]

\* the first lines of _pushStateSafely: install y_a, then every velocity of y_b
pushStateSafelyBegin(L, y_a, y_b) ==
  [pushState(L, y_a) EXCEPT
     !.bounced_last_step = FALSE,
     !.vel = [o \in Objs |-> IF o \in Range(L.masses)
                             THEN y_b[IndexOf(L.masses, o)].vel ELSE @[o]]]

\* the "if self._system_changed" of step(), were it to take the phase vector
\* of the layout only when the integrator's no longer fits the masses
reseedOnResize(L) ==
  IF L.system_changed
  THEN [L EXCEPT !.ode_y = IF Len(@) = Len(L.masses) THEN @ ELSE pullState(L),
                 !.system_changed = FALSE]
  ELSE L

\* the "if self._system_changed" of step()
reseed(L) ==
  IF L.system_changed
  THEN [L EXCEPT !.ode_y = pullState(L), !.system_changed = FALSE]
  ELSE L

\* the exception step() raises before it changes anything: np.concatenate
\* of no arrays (no mass), or a phase vector that does not fit the masses
stepError(L) ==
  IF L.masses = <<>> THEN "ValueError"
  ELSE IF ~L.system_changed /\ Len(L.ode_y) # Len(L.masses) THEN "ValueError"
  ELSE "none"

(***************************************************************************)
(* initialiseState (lines 187-307).  A placement suggestion is the record  *)
(* [mass, r, th]: mass is the reference mass, r and th are <<>> when the   *)
(* key is absent and <<value, weight>> otherwise; the empty dict has mass  *)
(* NoObj.  Weights are carried doubled (stiffness / 2 occurs), which the   *)
(* weighted means do not see.                                              *)
(***************************************************************************)
\* set(c.masses()).intersection(ms)
participantsIn(c, ms) == Range(cMasses(c)) \cap Range(ms)

\* lines 198-205: one score per unplaced mass
scores(ms, cs) ==
  [i \in DOMAIN ms |->
     Cardinality({j \in DOMAIN cs : Cardinality(participantsIn(cs[j], ms)) = 1})]

\* the index of the last score
indexOfLast(sc) == Len(sc)

\* scores.index(min(scores))
indexOfMin(sc) ==
  CHOOSE i \in DOMAIN sc :
    /\ \A j \in DOMAIN sc : sc[i] <= sc[j]
    /\ \A j \in 1..(i - 1) : sc[j] # sc[i]

RemoveAt(s, i) == SubSeq(s, 1, i - 1) \o SubSeq(s, i + 1, Len(s))

\* the ordering loop (lines 192-219): the lists ms and cs it builds
RECURSIVE ordering(_, _, _, _)
RECURSIVE orderingRound(_, _, _, _, _, _)
ordering(ms_left, cs_left, ms, cs) ==
  IF cs_left = <<>> /\ ms_left = <<>> THEN [ms |-> ms, cs |-> cs]
  ELSE orderingRound(ms_left, cs_left, ms, cs,
                     ms_left[indexOfMin(scores(ms_left, cs_left))],
                     RemoveAt(ms_left, indexOfMin(scores(ms_left, cs_left))))

\* one round, lines 208-219: m_best leaves the masses (rest is what remains),
\* and the constraints with no participant among them are moved to cs
orderingRound(ms_left, cs_left, ms, cs, m_best, rest) ==
  ordering(rest,
           SelectSeq(cs_left, LAMBDA c : participantsIn(c, rest) # {}),
           Append(ms, m_best),
           cs \o SelectSeq(cs_left, LAMBDA c : participantsIn(c, rest) = {}))

\* the sign of error = _angle(mass_a, dummy, mass_c) - natural_length for
\* dummy at distance r = |a - c| and direction mid from mass_a, with a and c
\* on the axis and natural_length 0 (the value is mid/2 -+ pi/2 when c is
\* right of a, mid/2 when c is left of a, 0 when they coincide)
searchErrorPositive(pa, pc3, mid) ==
  IF IsNaN(pa) \/ IsNaN(pc3) THEN FALSE
  ELSE IF Val(pc3) > Val(pa) THEN mid < 0
  ELSE IF Val(pc3) < Val(pa) THEN mid > 0
  ELSE FALSE

\* the bisection of ConstraintAngleLocal.placementSuggestion (lines 683-695);
\* once a and b are neighbours on the grid of angles every later mid is the
\* same
RECURSIVE search(_, _, _, _, _, _)
search(pa, pc3, a, b, mid, i) ==
  IF i = SEARCH_DEPTH \/ (i > 0 /\ b - a <= 1) THEN mid
  ELSE search(pa, pc3,
              IF searchErrorPositive(pa, pc3, Quot(a + b, 2))
              THEN a ELSE Quot(a + b, 2),
              IF searchErrorPositive(pa, pc3, Quot(a + b, 2))
              THEN Quot(a + b, 2) ELSE b,
              Quot(a + b, 2), i + 1)

NoSuggestion == [mass |-> NoObj, r |-> <<>>, th |-> <<>>]

\* a placementSuggestion that takes the mass it is asked about as reference
placementSuggestionSelf(L, c, mass) ==
  IF mass \in Range(cMasses(c))
  THEN [mass |-> mass, r |-> <<Fin(c.len), 2 * c.k>>, th |-> <<>>]
  ELSE NoSuggestion

\* Constraint*.placementSuggestion(mass)
placementSuggestion(L, c, mass) ==
  CASE c.kind = "distance" ->
         IF mass = c.a
         THEN [mass |-> c.b, r |-> <<Fin(c.len), 2 * c.k>>, th |-> <<>>]
         ELSE IF mass = c.b
         THEN [mass |-> c.a, r |-> <<Fin(c.len), 2 * c.k>>, th |-> <<>>]
         ELSE NoSuggestion
    [] c.kind = "angle_global" ->
         IF mass = c.a
         THEN [mass |-> c.b, r |-> <<>>, th |-> <<Fin(c.len), 2 * c.k>>]
         ELSE IF mass = c.b
         THEN [mass |-> c.a, r |-> <<>>,
               th |-> <<angleWrap(Fin(c.len + PI)), 2 * c.k>>]
         ELSE NoSuggestion
    [] c.kind = "angle_local" ->
         IF mass = c.a
         THEN [mass |-> c.b, r |-> <<>>,
               th |-> <<angleWrap(Add(angle2(L.pos[c.c], L.pos[c.b]), Fin(c.len))),
                        2 * c.k>>]
         ELSE IF mass = c.b
         THEN [mass |-> c.a,
               r |-> <<DivInt(Mul(Fin(2 * PI - Abs(c.len)),
                                  distance(L.pos[c.a], L.pos[c.c])), 2 * PI),
                       c.k>>,
               th |-> <<Fin(search(L.pos[c.a], L.pos[c.c], -PI, PI, 0, 0)),
                        c.k>>]
         ELSE IF mass = c.c
         THEN [mass |-> c.b, r |-> <<>>,
               th |-> <<angleWrap(Sub(angle2(L.pos[c.a], L.pos[c.b]), Fin(c.len))),
                        2 * c.k>>]
         ELSE NoSuggestion

\* the order of sorted(ps, key=F_MASS) on the names in use
NameOrder == <<"a", "b", "c">>

RECURSIVE SumW(_)
SumW(s) == IF s = <<>> THEN 0 ELSE Head(s)[2] + SumW(Tail(s))

\* lines 243-255: the merged suggestion of one group g
mergeArrays(ref, rs, ths) ==
  [mass |-> ref,
   r |-> IF rs = <<>> THEN <<>>
         ELSE <<Div(SumSeq([i \in DOMAIN rs |-> Mul(rs[i][1], Fin(rs[i][2]))]),
                    Fin(SumW(rs))),
                SumW(rs)>>,
   th |-> IF ths = <<>> THEN <<>>
          ELSE <<Arctan2(SumSeq([i \in DOMAIN ths |->
                                   Mul(Cos(ths[i][1]), Fin(ths[i][2]))])),
                 SumW(ths)>>]
mergeGroup(g) ==
  mergeArrays(g[1].mass,
              SelectSeq([i \in DOMAIN g |-> g[i].r], LAMBDA x : x # <<>>),
              SelectSeq([i \in DOMAIN g |-> g[i].th], LAMBDA x : x # <<>>))

\* lines 240-256: group the suggestions by the name of their reference mass
RECURSIVE mergeByName(_, _)
mergedOf(g) == IF g = <<>> THEN <<>> ELSE <<mergeGroup(g)>>
mergeByName(ps, names) ==
  IF names = <<>> THEN <<>>
  ELSE mergedOf(SelectSeq(ps, LAMBDA p : ObjName[p.mass] = Head(names)))
         \o mergeByName(ps, Tail(names))

\* which keys a merged suggestion carries
kindOf(p) ==
  IF p.r # <<>> /\ p.th # <<>> THEN "both"
  ELSE IF p.th # <<>> THEN "th" ELSE "r"

\* the sort key of lines 260-261, ('r' in x and 'th' in x, 'th' in x), as a
\* rank: False sorts before True
sortKey(p) ==
  IF kindOf(p) = "both" THEN 2 ELSE IF kindOf(p) = "th" THEN 1 ELSE 0

\* sorted(ps_merged, key=...): ascending and stable
sortMerged(ps_merged) ==
  SelectSeq(ps_merged, LAMBDA p : sortKey(p) = 0)
    \o SelectSeq(ps_merged, LAMBDA p : sortKey(p) = 1)
    \o SelectSeq(ps_merged, LAMBDA p : sortKey(p) = 2)

\* lines 264-295: the position one merged suggestion asks for, and its weight
\* "1 if r < 1 or weight == 0 else r"
atLeastOne(r, weight) ==
  IF Lt(r, Fin(DIST_UNIT)) \/ weight = 0 THEN Fin(DIST_UNIT) ELSE r
\* the th-only branch: along the line at angle th from the reference
alongLine(ref, uvx, placement, weight) ==
  Add(ref, Mul(atLeastOne(Mul(Sub(placement, ref), uvx), weight), uvx))
\* the r-only branch: at distance r towards the running placement
towards(ref, r, v, weight) ==
  Add(ref, Mul(r, IF weight = 0 THEN Fin(1) ELSE Div(v, Norm(v))))
suggestedOf(L, p, placement, weight) ==
  CASE kindOf(p) = "both" ->
         [suggested |-> Add(L.pos[p.mass], Mul(p.r[1], Cos(p.th[1]))),
          w |-> p.r[2] + p.th[2]]
    [] kindOf(p) = "th" ->
         [suggested |-> alongLine(L.pos[p.mass], Cos(p.th[1]), placement, weight),
          w |-> p.th[2]]
    [] kindOf(p) = "r" ->
         [suggested |-> towards(L.pos[p.mass], p.r[1],
                                Sub(placement, L.pos[p.mass]), weight),
          w |-> p.r[2]]

\* the loop of lines 264-299 over the sorted merged suggestions
RECURSIVE foldSuggestions(_, _, _, _)
\* "Incorporate the placement suggestion, and update the weight"
RECURSIVE incorporate(_, _, _, _, _)
foldSuggestions(L, ps, placement, weight) ==
  IF ps = <<>> THEN placement
  ELSE incorporate(L, Tail(ps), placement, weight,
                   suggestedOf(L, Head(ps), placement, weight))
incorporate(L, ps, placement, weight, s) ==
  foldSuggestions(L, ps,
    Div(Add(Mul(placement, Fin(weight)), Mul(s.suggested, Fin(s.w))),
        Fin(weight + s.w)),
    weight + s.w)

\* the placement loop (lines 221-307) over ms; folds collects, per mass, the
\* kinds of its merged suggestions in the order they are folded; raises is
\* the KeyError of line 235 on an empty suggestion
RECURSIVE placeAll(_, _, _, _)
RECURSIVE placeMerged(_, _, _, _, _, _), placeSuggested(_, _, _, _, _, _),
          placeOne(_, _, _, _, _)
placeAll(L, ms, cs, folds) ==
  IF ms = <<>> THEN [L |-> L, folds |-> folds, raises |-> FALSE]
  ELSE placeOne(L, ms, cs, folds,
         SelectSeq(cs, LAMBDA c :
                     Range(cMasses(c)) \subseteq Range(L.masses) \cup {Head(ms)}))

\* lines 225-236: the suggestions of the constraints the mass completes
placeOne(L, ms, cs, folds, cs_complete) ==
  placeSuggested(L, ms, cs, folds, cs_complete,
                 [i \in DOMAIN cs_complete |->
                    placementSuggestion(L, cs_complete[i], Head(ms))])

\* lines 238-261: merged by reference mass, then sorted
placeSuggested(L, ms, cs, folds, cs_complete, ps) ==
  IF \E i \in DOMAIN ps : ps[i] = NoSuggestion
  THEN [L |-> L, folds |-> folds, raises |-> TRUE]
  ELSE placeMerged(L, ms, cs, folds, cs_complete,
                   sortMerged(mergeByName(ps, NameOrder)))

\* lines 262-307: fold, place the mass, hand its constraints back
placeMerged(L, ms, cs, folds, cs_complete, ps_merged) ==
  placeAll([L EXCEPT !.pos[Head(ms)] = foldSuggestions(L, ps_merged, ZERO, 0),
                     !.masses = Append(@, Head(ms)),
                     !.constraints = @ \o cs_complete],
           Tail(ms),
           SelectSeq(cs, LAMBDA c : \A i \in DOMAIN cs_complete : cs_complete[i] # c),
           Append(folds, [i \in DOMAIN ps_merged |-> kindOf(ps_merged[i])]))

\* the exception of the ordering loop: min() of no scores
initialiseStateError(L) ==
  IF L.masses = <<>> /\ L.constraints # <<>> THEN "ValueError" ELSE "none"

\* initialiseState, past the ordering loop's first round
\* the placement phase on the lists of the ordering phase
placeOrdered(L, o) ==
  [placed |-> placeAll([L EXCEPT !.masses = <<>>, !.constraints = <<>>],
                       o.ms, o.cs, <<>>),
   ms |-> o.ms]
initialiseState(L) ==
  placeOrdered(L, ordering(L.masses, L.constraints, <<>>, <<>>))

(***************************************************************************)
(* Initial state: SpatialLayout.__init__ (lines 55-71).                    *)
(***************************************************************************)
\* the layout after SpatialLayout.__init__
LayoutInit ==
  /\ masses = <<>>
  /\ constraints = <<>>
  /\ system_changed = FALSE
  /\ bounced_last_step = FALSE
  /\ log_energy \in BOOLEAN
  /\ energy_log = EmptyLog
  /\ hook_set \in BOOLEAN
  /\ hook_calls = 0
  /\ hook_seen = [system_changed |-> FALSE, samples |-> 0, pc |-> "idle"]
  /\ pos = [o \in Objs |-> Fin(ObjPos[o])]
  /\ vel = [o \in Objs |-> ZERO]
  /\ acc = [o \in Objs |-> ZERO]
  /\ ode_y = <<>>
  /\ ode_t = 0
  /\ pc = "idle"
  /\ state = <<>>
  /\ idx = 0
  /\ stp = ZERO
  /\ call = "__init__"
  /\ err = "none"
  /\ ms_order = <<>>
  /\ fold_order = <<>>
  /\ nops = 0
  /\ passes = {}
  /\ ode_owner = <<>>

\* no call of _stepSafely on the plane is under way
PlaneIdle ==
  [mass |-> <<0, 0>>, step |-> <<0, 0>>, unsafe |-> <<0, 0>>, at |-> "idle"]

Init == LayoutInit /\ plane = PlaneIdle

\* an API call is made between steps, by the one thread that drives the layout
CanCall == pc = "idle" /\ nops < MaxOps

\* the outcome of a call: the exception it raised, if any; a call that
\* changed the layout counts against MaxOps
Called(op, L, e) ==
  /\ call' = op
  /\ err' = e
  /\ nops' = IF L = Self THEN nops ELSE nops + 1

\* a call that returns normally and leaves the layout L
Returned(op, L) == Store(L) /\ Called(op, L, "none")

(***************************************************************************)
(* Actions: the API of the layout.                                         *)
(***************************************************************************)
AddMass(m) ==
  /\ CanCall
  /\ Returned("addMass", addMass(Self, m))
  /\ UNCHANGED <<log_energy, hook_set, pc, state, idx, stp, ms_order, fold_order,
                 passes, ode_owner, plane>>

AddConstraint(c) ==
  /\ CanCall
  /\ Len(constraints) < MaxConstraints
  /\ Returned("addConstraint", addConstraint(Self, c))
  /\ UNCHANGED <<log_energy, hook_set, pc, state, idx, stp, ms_order, fold_order,
                 passes, ode_owner, plane>>

AddConstraints(cs) ==
  /\ CanCall
  /\ Len(constraints) + Len(cs) <= MaxConstraints
  /\ Returned("addConstraints", addConstraints(Self, cs))
  /\ UNCHANGED <<log_energy, hook_set, pc, state, idx, stp, ms_order, fold_order,
                 passes, ode_owner, plane>>

UpdateConstraints(cs) ==
  /\ CanCall
  /\ \/ updateConstraintsError(cs) # "none"
     \/ Len(SelectSeqTag(constraints, cs[1].tag)) + Len(cs) <= MaxConstraints
  /\ IF updateConstraintsError(cs) = "none"
     THEN Returned("updateConstraints", updateConstraints(Self, cs))
     ELSE Store(Self) /\ Called("updateConstraints", Self, updateConstraintsError(cs))
  /\ UNCHANGED <<log_energy, hook_set, pc, state, idx, stp, ms_order, fold_order,
                 passes, ode_owner, plane>>

\* randomiseState: draw is the outcome of the random.random() calls
randomiseState(L, draw) ==
  markStateChanged(
    [L EXCEPT
       !.pos = [o \in Objs |-> IF o \in Range(L.masses)
                               THEN Fin(draw[o]) ELSE @[o]],
       !.vel = [o \in Objs |-> IF o \in Range(L.masses) THEN ZERO ELSE @[o]],
       !.acc = [o \in Objs |-> IF o \in Range(L.masses) THEN ZERO ELSE @[o]]],
    TRUE, TRUE)

RandomiseState(d) ==
  /\ CanCall
  /\ Returned("randomiseState", randomiseState(Self, RandomDraws[d]))
  /\ UNCHANGED <<log_energy, hook_set, pc, state, idx, stp, ms_order, fold_order,
                 passes, ode_owner, plane>>

\* resetEnergyLog
ResetEnergyLog ==
  /\ CanCall
  /\ Returned("resetEnergyLog", resetEnergyLog(Self))
  /\ UNCHANGED <<log_energy, hook_set, pc, state, idx, stp, ms_order, fold_order,
                 passes, ode_owner, plane>>

\* initialiseState
Initialised(r) ==
  /\ Store(r.placed.L)
  /\ Called("initialiseState", r.placed.L,
            IF r.placed.raises THEN "KeyError" ELSE "none")
  /\ ms_order' = r.ms
  /\ fold_order' = r.placed.folds

InitialiseState ==
  /\ CanCall
  /\ IF initialiseStateError(Self) # "none"
     THEN /\ Store(Self)
          /\ Called("initialiseState", Self, initialiseStateError(Self))
          /\ UNCHANGED <<ms_order, fold_order>>
     ELSE Initialised(initialiseState(Self))
  /\ UNCHANGED <<log_energy, hook_set, pc, state, idx, stp, passes, ode_owner, plane>>

(***************************************************************************)
(* step() (lines 326-349), in three parts: up to the first lines of        *)
(* _pushStateSafely; one iteration of the while loop of _stepSafely for    *)
(* the current mass; the closing markStateChanged.  The layout stays on    *)
(* the axis under distance springs, so a step is taken when every spring   *)
(* of the layout is one.                                                   *)
(***************************************************************************)
OnAxis == \A i \in DOMAIN constraints : constraints[i].kind = "distance"

\* step() from "state = np.copy(self._ode.y)" on: y_a is that copy, L the
\* layout after self._ode.integrate
Integrated(y_a, L) ==
  /\ Store(pushStateSafelyBegin(L, y_a, L.ode_y))
  /\ state' = y_a
  /\ idx' = 1
  /\ stp' = Sub(L.ode_y[1].pos, y_a[1].pos)
  /\ pc' = "safely"
  /\ call' = "step"
  /\ err' = "none"
  /\ nops' = nops + 1
  /\ passes' = {}
  /\ ode_owner' = IF system_changed THEN masses ELSE ode_owner

StepBegin ==
  /\ CanCall
  /\ OnAxis
  /\ IF stepError(Self) # "none"
     THEN /\ Store(Self)
          /\ Called("step", Self, stepError(Self))
          /\ UNCHANGED <<pc, state, idx, stp, passes, ode_owner, plane>>
     ELSE Integrated(reseed(Self).ode_y, integrate(reseed(Self)))
  /\ UNCHANGED <<log_energy, hook_set, ms_order, fold_order, plane>>

\* one pass through the while loop of _stepSafely(masses[idx], stp)
\* the clash branch of the loop: b is the outcome of the collision
Bounced(b) ==
  IF b.raises
  THEN /\ Store(Self)
       /\ err' = "ValueError"
       /\ pc' = "idle"
       /\ passes' = {}
       /\ UNCHANGED <<idx, stp>>
  ELSE /\ Store(b.L)
       /\ stp' = b.step
       /\ passes' = passes \cup {<<pos, vel, stp>>}
       /\ UNCHANGED <<pc, idx, err>>

\* "mass.pos += step", and on to the next mass of _pushStateSafely
Committed(mass) ==
  /\ Store([Self EXCEPT !.pos[mass] = Add(@, stp)])
  /\ idx' = idx + 1
  /\ IF idx < Len(masses)
     THEN /\ stp' = Sub(ode_y[idx + 1].pos, state[idx + 1].pos)
          /\ pc' = "safely"
     ELSE /\ stp' = ZERO
          /\ pc' = "mark"
  /\ passes' = {}
  /\ UNCHANGED err

SteppedSafely(mass, m_unsafe) ==
  IF m_unsafe # NoObj
  THEN Bounced(bounce(Self, mass, stp, m_unsafe))
  ELSE Committed(mass)

StepSafely ==
  /\ pc = "safely"
  /\ SteppedSafely(masses[idx], unsafeOf(Self, masses[idx], stp))
  /\ UNCHANGED <<log_energy, hook_set, state, call, ms_order, fold_order, nops,
                 ode_owner, plane>>

\* self.markStateChanged(self._bounced_last_step), the last line of step()
StepEnd ==
  /\ pc = "mark"
  /\ Store(markStateChanged(Self, bounced_last_step, FALSE))
  /\ pc' = "idle"
  /\ UNCHANGED <<log_energy, hook_set, state, idx, stp, call, err, ms_order,
                 fold_order, nops, passes, ode_owner, plane>>

Next ==
  \/ \E m \in Objs : AddMass(m)
  \/ \E i \in DOMAIN ConstraintPool : AddConstraint(ConstraintPool[i])
  \/ \E i \in DOMAIN BatchPool : AddConstraints(BatchPool[i])
  \/ \E i \in DOMAIN UpdatePool : UpdateConstraints(UpdatePool[i])
  \/ \E d \in DOMAIN RandomDraws : RandomiseState(d)
  \/ ResetEnergyLog
  \/ InitialiseState
  \/ StepBegin
  \/ StepSafely
  \/ StepEnd

Spec == Init /\ [][Next]_vars

(***************************************************************************)
(* The collision geometry on the plane.  On the x axis the line from the   *)
(* mass to its desired position always runs through the centre of the      *)
(* other mass; off the axis it need not, and _firstCircleIntersect works   *)
(* with a slope and an intercept that are rounded.  Here one pass through  *)
(* the loop of _stepSafely is taken for a mass, a step and another mass    *)
(* anywhere on the grid: coordinates are integers in grid units, a slope   *)
(* (a float ratio) is carried in units of 1/DIST_UNIT, and every product   *)
(* or quotient that leaves the grid is rounded toward zero, as a float     *)
(* operation rounds its result to the nearest double.                      *)
(***************************************************************************)
\* half-width of the ranges the start and the step are drawn from
PlaneSpan == 5
\* positions of the other mass
PlaneCentres == {<<0, 0>>, <<300, -100>>}
\* positions of the stepped mass, relative to the other mass
PlaneStarts == {<<-600, 210 + i>> : i \in (-PlaneSpan)..PlaneSpan}
\* steps the integrator proposes
PlaneSteps ==
  {<<610 + 10 * j, k - 11>> : j \in (-PlaneSpan)..PlaneSpan, k \in (-PlaneSpan)..PlaneSpan}

\* n / d, rounded toward zero (d # 0)
planeQuot(n, d) == Quot(n * Sign(d), Abs(d))

\* _distance(m_desired, m) < SAFE_DISTANCE for m_desired.pos = mass.pos + step
planeClash(mass, step, unsafe) ==
  Isqrt((mass[1] + step[1] - unsafe[1]) * (mass[1] + step[1] - unsafe[1])
        + (mass[2] + step[2] - unsafe[2]) * (mass[2] + step[2] - unsafe[2]))
    < SAFE_DISTANCE

\* use_vertical = np.abs(disp[0]) < np.abs(disp[1])
use_vertical(disp) == Abs(disp[1]) < Abs(disp[2])
\* m = disp[0] / disp[1] if use_vertical else disp[1] / disp[0]
planeSlope(disp) ==
  IF use_vertical(disp) THEN planeQuot(disp[1] * DIST_UNIT, disp[2])
  ELSE planeQuot(disp[2] * DIST_UNIT, disp[1])
\* c = -m * line_a[1] + line_a[0] if use_vertical else -m * line_a[0] + line_a[1]
planeIntercept(vertical, m, line_a) ==
  IF vertical THEN planeQuot(-m * line_a[2], DIST_UNIT) + line_a[1]
  ELSE planeQuot(-m * line_a[1], DIST_UNIT) + line_a[2]
\* quad_a = -1 - m**2, in units of 1/DIST_UNIT
plane_quad_a(m) == -DIST_UNIT - planeQuot(m * m, DIST_UNIT)
\* quad_b = -2 m c + 2 m (centre[0] if use_vertical else centre[1])
\*          + 2 (centre[1] if use_vertical else centre[0])
plane_quad_b(vertical, m, c, centre) ==
  planeQuot(-2 * m * c, DIST_UNIT)
  + planeQuot(2 * m * (IF vertical THEN centre[1] ELSE centre[2]), DIST_UNIT)
  + 2 * (IF vertical THEN centre[2] ELSE centre[1])
\* quad_c = -c**2 + r**2 - centre[0]**2 - centre[1]**2
\*          + 2 c (centre[0] if use_vertical else centre[1])
plane_quad_c(vertical, c, centre, circle_r) ==
  -(c * c) + circle_r * circle_r - centre[1] * centre[1] - centre[2] * centre[2]
  + 2 * c * (IF vertical THEN centre[1] ELSE centre[2])
\* discriminant = quad_b**2 - 4 * quad_a * quad_c
planeDiscriminantOf(qa, qb, qc) == qb * qb - planeQuot(4 * qa * qc, DIST_UNIT)
planeDiscriminantAt(vertical, m, c, centre, circle_r) ==
  planeDiscriminantOf(plane_quad_a(m), plane_quad_b(vertical, m, c, centre),
                      plane_quad_c(vertical, c, centre, circle_r))
planeDiscriminantAlong(vertical, m, line_a, centre, circle_r) ==
  planeDiscriminantAt(vertical, m, planeIntercept(vertical, m, line_a), centre, circle_r)
planeDiscriminant(line_a, disp, centre, circle_r) ==
  planeDiscriminantAlong(use_vertical(disp), planeSlope(disp), line_a, centre,
                         circle_r)

\* one pass through the while loop of _stepSafely: no clash and the step is
\* applied; or a clash, and _firstCircleIntersect raises ValueError or
\* returns the intersect
planePass(mass, step, unsafe) ==
  IF ~planeClash(mass, step, unsafe) THEN "committed"
  ELSE IF planeDiscriminant(mass, step, unsafe, SAFE_DISTANCE) < 0 THEN "raised"
  ELSE "intersect"

\* a layout of two masses, one of them about to be stepped
PlaneInit ==
  /\ LayoutInit
  /\ \E c \in PlaneCentres, a \in PlaneStarts, st \in PlaneSteps :
       plane = [mass |-> <<c[1] + a[1], c[2] + a[2]>>, step |-> st,
                unsafe |-> c, at |-> "call"]

PlaneStepSafely ==
  /\ plane.at = "call"
  /\ plane' = [plane EXCEPT !.at = planePass(plane.mass, plane.step, plane.unsafe)]
  /\ UNCHANGED <<masses, constraints, system_changed, bounced_last_step,
                 log_energy, energy_log, hook_set, hook_calls, hook_seen, pos,
                 vel, acc, ode_y, ode_t, pc, state, idx, stp, call, err,
                 ms_order, fold_order, nops, ode_owner, passes>>

PlaneNext == PlaneStepSafely

PlaneSpec == PlaneInit /\ [][PlaneNext]_vars


(***************************************************************************)
(* Properties.                                                             *)
(***************************************************************************)
\* every pair of distinct masses of the layout is at least SAFE_DISTANCE
\* apart (a NaN distance is not)
Separated ==
  \A i, j \in DOMAIN masses :
    i # j => /\ ~IsNaN(distance(pos[masses[i]], pos[masses[j]]))
             /\ ~Lt(distance(pos[masses[i]], pos[masses[j]]), Fin(SAFE_DISTANCE))

\* C1: when step() returns normally, every pair of distinct masses of the
\* layout is separated by at least the safe distance, whatever the
\* configuration before the step (coincident masses and fixed masses
\* included).
C1_SafeDistanceAfterStep == [][(pc = "mark" /\ pc' = "idle") => Separated']_vars

\* C2: no two masses of the layout have the same name.
C2_UniqueNames ==
  \A i, j \in DOMAIN masses : i # j => ObjName[masses[i]] # ObjName[masses[j]]

\* C3: every mass a constraint of the layout refers to is the mass the
\* layout owns under that name.
C3_ConstraintsReferenceOwned ==
  \A i \in DOMAIN constraints :
    \A m \in Range(cMasses(constraints[i])) :
      m \in Range(masses) /\ getMass(Self, ObjName[m]) = m

\* the precondition of updateConstraints: cs is not empty, its members share
\* one tag id, and that tag id is not negative
SameTag(cs) == cs # <<>> /\ \A i \in DOMAIN cs : cs[i].tag = cs[1].tag

C5_FailedUpdateChangesNothing ==
  [][\A n \in DOMAIN UpdatePool :
       (/\ UpdatePool[n] # <<>>
        /\ UpdatePool[n][1].tag < 0 \/ ~SameTag(UpdatePool[n])
        /\ UpdateConstraints(UpdatePool[n]))
       => /\ err' # "none"
          /\ UNCHANGED <<constraints, masses, system_changed, energy_log,
                         hook_calls>>]_vars

\* C5 witness: a failed updateConstraints on a layout that holds
\* constraints, has a hook that was invoked before, and whose flag is clear
\* (a step without a bounce came before).
C5_Witness ==
  /\ call = "updateConstraints" /\ err = "AssertionError"
  /\ constraints # <<>>
  /\ ~system_changed
  /\ hook_calls > 0

\* C6: addMass (when it inserts), addConstraint(s), updateConstraints and
\* randomiseState set the system-changed flag; no call other than a step
\* that runs clears it; a step that runs on a set flag takes the current
\* phase vector of the layout as the integrator's state, integrates from it
\* with the integrator time kept (advanced by this one step), and clears
\* the flag.
C6_MutationsReseedNextStep ==
  [][/\ (/\ call' \in {"addConstraint", "addConstraints", "updateConstraints",
                       "randomiseState"}
         /\ err' = "none") => system_changed'
     /\ (call' = "addMass" /\ masses' # masses) => system_changed'
     /\ (system_changed /\ pc = "idle" /\ pc' = "idle") => system_changed'
     /\ (system_changed /\ pc = "idle" /\ pc' = "safely")
          => /\ state' = pullState(Self)
             /\ ode_y' = integrate([Self EXCEPT !.ode_y = pullState(Self)]).ode_y
             /\ ode_t' = ode_t + 1
             /\ ~system_changed']_vars

\* C6 witness: the second step, started after a randomiseState that came
\* after the first step (the energy log was reset at integrator time 1).
C6_Witness ==
  /\ pc = "safely" /\ call = "step" /\ ode_t = 2
  /\ energy_log.t = <<1>>
  /\ ~system_changed

\* C7: no part of step() changes the position of a fixed mass of the
\* layout, and when step() returns the velocity and the acceleration of
\* every fixed mass are zero.
C7_FixedMassImmutable ==
  [][/\ (pc # "idle" \/ pc' # "idle")
          => \A m \in Range(masses) : ObjFixed[m] => pos'[m] = pos[m]
     /\ (pc = "mark" /\ pc' = "idle")
          => \A m \in Range(masses) :
               ObjFixed[m] => vel'[m] = ZERO /\ acc'[m] = ZERO]_vars

\* the number of pending constraints that placing m would complete: those
\* whose only unplaced participant is m
completionScore(m, ms_left, cs_left) ==
  Cardinality({j \in DOMAIN cs_left : participantsIn(cs_left[j], ms_left) = {m}})

\* the first unplaced mass of the largest completion score
greedyPick(ms_left, cs_left) ==
  CHOOSE i \in DOMAIN ms_left :
    /\ \A j \in DOMAIN ms_left :
         completionScore(ms_left[j], ms_left, cs_left)
           <= completionScore(ms_left[i], ms_left, cs_left)
    /\ \A j \in 1..(i - 1) :
         completionScore(ms_left[j], ms_left, cs_left)
           < completionScore(ms_left[i], ms_left, cs_left)

\* the placement order of the greedy ordering
RECURSIVE greedyOrder(_, _)
greedyOrder(ms_left, cs_left) ==
  IF ms_left = <<>> THEN <<>>
  ELSE <<ms_left[greedyPick(ms_left, cs_left)]>>
         \o greedyOrder(RemoveAt(ms_left, greedyPick(ms_left, cs_left)),
                        SelectSeq(cs_left, LAMBDA c :
                          participantsIn(c, RemoveAt(ms_left,
                                                     greedyPick(ms_left, cs_left)))
                            # {}))

\* every participant of every constraint is a mass of the layout
ParticipantsOwned ==
  \A i \in DOMAIN constraints :
    Range(cMasses(constraints[i])) \subseteq Range(masses)

\* C8: the placement order of initialiseState is the greedy order: each
\* round picks the unplaced mass that completes the most pending
\* constraints, ties broken by insertion order (stated for layouts whose
\* constraints refer to masses of the layout only).
C8_GreedyOrdering ==
  [][(/\ call' = "initialiseState" /\ err' = "none" /\ pc = "idle"
      /\ ParticipantsOwned)
       => ms_order' = greedyOrder(masses, constraints)]_vars

\* the place of a kind of merged suggestion in the order both, th, r
foldRank(kind) == IF kind = "both" THEN 0 ELSE IF kind = "th" THEN 1 ELSE 2

\* C9: the merged suggestions of every mass are folded into its placement
\* in the order: both r and th first, then th only, then r only.
C9_FoldOrder ==
  \A i \in DOMAIN fold_order :
    \A j, k \in DOMAIN fold_order[i] :
      j < k => foldRank(fold_order[i][j]) <= foldRank(fold_order[i][k])

\* C10: the while loop of _stepSafely ends for every mass: as the loop is
\* deterministic in the positions, the velocities and the remaining step,
\* it is never back at its head in a configuration in which this call of
\* _stepSafely has been there before.
C10_StepCompletes == pc = "safely" => <<pos, vel, stp>> \notin passes

\* C11: a step starts with bouncedLastStep false; each pass of the loop of
\* _stepSafely that reflects (it leaves a configuration in passes) makes
\* it true and no other pass changes it; the end of the step copies it into
\* the system-changed flag; and the next step re-seeds the integrator from
\* the masses when the flag is set and takes the integrator's own vector
\* when it is clear.
C11_BouncedFlagTracksReflections ==
  [][/\ (pc = "idle" /\ pc' = "safely") => ~bounced_last_step'
     /\ (pc = "safely" /\ pc' # "idle")
          => bounced_last_step' = (bounced_last_step \/ passes' # {})
     /\ (pc = "mark" /\ pc' = "idle")
          => /\ bounced_last_step' = bounced_last_step
             /\ system_changed' = bounced_last_step
     /\ (pc = "idle" /\ pc' = "safely")
          => state' = IF system_changed THEN pullState(Self) ELSE ode_y]_vars

\* C11 witness: a second step has returned without a bounce, after a first
\* step that bounced (a mass is at the NaN of a reflection with no step).
C11_Witness ==
  /\ pc = "idle" /\ call = "step" /\ err = "none" /\ ode_t = 2
  /\ ~bounced_last_step /\ ~system_changed
  /\ \E i \in DOMAIN masses : IsNaN(pos[masses[i]])

\* what is asked of the suggestion s of constraint c for mass m
suggestionFits(c, m, s) ==
  IF m \in Range(cMasses(c))
  THEN /\ s.r # <<>> \/ s.th # <<>>
       /\ s.mass \in Range(cMasses(c)) \ {m}
  ELSE s = NoSuggestion

countOf(cs, c) == Cardinality({i \in DOMAIN cs : cs[i] = c})

\* C13: when initialiseState returns, the layout owns the same set of
\* masses, each once, and the same collection of constraints (none lost,
\* none duplicated) as before the call.
C13_InitialiseStateKeepsLayout ==
  [][(call' = "initialiseState" /\ err' = "none" /\ pc = "idle")
       => /\ Range(masses') = Range(masses)
          /\ Len(masses') = Len(masses)
          /\ \A c \in Range(constraints) \cup Range(constraints') :
               countOf(constraints', c) = countOf(constraints, c)]_vars

\* C14: whenever the hook is invoked, it sees the flag and the energy log as
\* the call leaves them (the flag was set and the sample appended before);
\* within step() nothing is logged and the hook is not invoked before the
\* safe state applier is through with all masses, and then the sample is
\* appended once and the hook invoked once, with the positions and
\* velocities final.
C14_ObserversNotifiedLast ==
  [][/\ hook_calls' # hook_calls
          => /\ hook_set
             /\ hook_seen'.system_changed = system_changed'
             /\ hook_seen'.samples = Len(energy_log'.t)
             /\ log_energy => hook_seen'.samples >= 1
     /\ ((pc = "idle" /\ pc' = "safely") \/ pc = "safely")
          => UNCHANGED <<hook_calls, hook_seen, energy_log>>
     /\ (pc = "mark" /\ pc' = "idle")
          => /\ hook_calls' = hook_calls + (IF hook_set THEN 1 ELSE 0)
             /\ hook_set => hook_seen'.pc = "mark"
             /\ Len(energy_log'.t)
                  = Len(energy_log.t) + (IF log_energy THEN 1 ELSE 0)
             /\ UNCHANGED <<pos, vel, acc>>]_vars

\* C14 witness: a step of a layout of two masses that bounced has returned,
\* with logging enabled and the hook invoked at its end.
C14_Witness ==
  /\ pc = "idle" /\ call = "step" /\ err = "none"
  /\ log_energy /\ hook_set
  /\ Len(masses) >= 2 /\ bounced_last_step
  /\ hook_seen.pc = "mark"
  /\ hook_seen.samples = Len(energy_log.t)
  /\ hook_calls >= 3

\* the layout L had it been built without an energy log
Unlogged(L) ==
  [L EXCEPT !.log_energy = FALSE, !.energy_log = EmptyLog,
            !.hook_seen.samples = 0]

\* the layout after is the layout before plus n samples in each series
\* (none when logging is disabled)
Logged(before, after, n) ==
  /\ Len(after.energy_log.t) = Len(after.energy_log.kinetic)
  /\ Len(after.energy_log.t) = Len(after.energy_log.potential)
  /\ Len(after.energy_log.t)
       = IF before.log_energy THEN Len(before.energy_log.t) + n ELSE 0

\* an operation that makes n calls of markStateChanged, with result with on
\* the layout before and result without on the layout built without a log:
\* n samples more, and the same but for what is recorded
SameButLogged(before, with, without, n) ==
  Logged(before, with, n) /\ Unlogged(with) = without

\* C15: in every reachable state the three series of the energy log have
\* the same length (zero when logging is disabled), and every operation
\* applied to the state appends one sample to each series for each
\* markStateChanged it makes (addMass one when it inserts; addConstraint one
\* and one for each mass it inserts; updateConstraints one; the end of
\* step() one), resetEnergyLog empties the three, randomiseState leaves
\* exactly one sample; and on the same layout built without a log each of
\* these operations gives the same layout apart from what is recorded.
\* (initialiseState and the rest of step() do not call markStateChanged and
\* do not read the log.)
C15_EnergyLogSamples ==
  /\ Logged(Self, Self, 0)
  /\ \A m \in Objs :
       \A with \in {addMass(Self, m)} :
         SameButLogged(Self, with, addMass(Unlogged(Self), m),
                       Len(with.masses) - Len(masses))
  /\ \A c \in Range(ConstraintPool) :
       \A with \in {addConstraint(Self, c)} :
         SameButLogged(Self, with, addConstraint(Unlogged(Self), c),
                       1 + Len(with.masses) - Len(masses))
  /\ \A cs \in Range(UpdatePool) :
       updateConstraintsError(cs) = "none"
         => \A with \in {updateConstraints(Self, cs)} :
              SameButLogged(Self, with, updateConstraints(Unlogged(Self), cs), 1)
  /\ \A d \in Range(RandomDraws) :
       \A with \in {randomiseState(Self, d)} :
         /\ Len(with.energy_log.t) = IF log_energy THEN 1 ELSE 0
         /\ SameButLogged([Self EXCEPT !.energy_log = EmptyLog], with,
                          randomiseState(Unlogged(Self), d), 1)
  /\ \A with \in {resetEnergyLog(Self)} :
       /\ with.energy_log = EmptyLog
       /\ Unlogged(with) = resetEnergyLog(Unlogged(Self))
  /\ \A with \in {markStateChanged(Self, bounced_last_step, FALSE)} :
       SameButLogged(Self, with,
                     markStateChanged(Unlogged(Self), bounced_last_step, FALSE), 1)

\* C15 witness: with logging enabled, randomiseState has just been called on
\* a layout that had logged before (two masses were added), and the log
\* holds one sample.
C15_Witness ==
  /\ log_energy /\ call = "randomiseState" /\ err = "none"
  /\ Len(masses) >= 2
  /\ Len(energy_log.t) = 1
  /\ Len(energy_log.kinetic) = 1 /\ Len(energy_log.potential) = 1

\* C16: a step() called right after initialiseState has returned integrates
\* from the positions and velocities of the masses as initialiseState left
\* them: the vector the step starts from, and installs before the safe
\* state applier runs, is the current phase vector of the layout.
C16_StepStartsFromPlacement ==
  [][(/\ pc = "idle" /\ pc' = "safely"
      /\ call = "initialiseState" /\ err = "none")
       => state' = pullState(Self)]_vars

\* C17: step() on a layout with at least one mass does not fail before it
\* integrates, and the vector it integrates has one block per mass of the
\* layout, block i seeded from (and installed back into) the i-th mass of
\* the current order of the masses.
C17_PhaseVectorMatchesMasses ==
  [][(pc = "idle" /\ call' = "step" /\ masses # <<>> /\ <<call, nops>> # <<call', nops'>>)
       => /\ pc' = "safely" /\ err' = "none"
          /\ Len(state') = Len(masses)
          /\ Len(ode_y') = Len(masses)
          /\ ode_owner' = masses]_vars

\* C17 witness: a second step is integrating two masses from the vector of
\* the first (which did not bounce), after initialiseState went through the
\* masses in between.
C17_Witness ==
  /\ pc = "safely" /\ call = "step" /\ ode_t = 2
  /\ Len(masses) >= 2 /\ ode_owner = masses
  /\ ms_order = masses
  /\ hook_seen.system_changed = FALSE /\ hook_seen.pc = "mark"

=============================================================================
